---------------------------- MODULE Spec2Model ----------------------------
(***************************************************************************)
(* AesCtrP (src/aes-ctrp.js): AES counter mode with a nonce header and a   *)
(* caller-supplied sequence number.                                        *)
(*                                                                         *)
(* One call of AesCtrP.encrypt or AesCtrP.decrypt is a small state machine:*)
(* the call, the AesCtrP.leadingZeros loop (one step per iteration), the   *)
(* set-up (key-size check, key derivation, nonce header, allocation), one  *)
(* step per 16-byte block, and the return.  After an encrypt has returned  *)
(* a buffer the caller may decrypt it with the same arguments, or encrypt  *)
(* the same plaintext again under another nonce.                           *)
(*                                                                         *)
(* Numbers that do not fit TLC's integers (the sequence may be 2^31, 2^32, *)
(* 2^63) are kept as the set of positions of their 1 bits.                 *)
(***************************************************************************)
EXTENDS Integers, Sequences, FiniteSets

VARIABLES
    op,            \* "none" | "encrypt" | "decrypt": the function running
    pc,            \* "idle" | "lz" | "setup" | "loop" | "done" | "error"
    plaintext,     \* encrypt: the argument; decrypt: the buffer being filled
    ciphertext,    \* decrypt: the argument; encrypt: the buffer being filled
    password,      \* argument
    nBits,         \* argument
    sequence,      \* argument as the caller passed it
    nonce,         \* argument as the caller passed it (NoNonce: omitted)
    x,             \* leadingZeros: x, as the set of its 1 bits
    xInt32,        \* leadingZeros: x already went through <<, so it is an int32
    n,             \* leadingZeros: n
    shift,         \* the value the code stores back into `sequence` (line 57/130)
    key,           \* the derived key
    counterBlock,  \* the 16-byte counter block
    blockCount,    \* number of blocks of the call
    b,             \* block index of the loop
    fed,           \* history: the counter blocks handed to Aes.cipher, in order
    result,        \* what the call returned
    orig,          \* round trip: the plaintext that was encrypted
    rt,            \* the running decrypt is the second half of a round trip
    prev           \* the previous encrypt call of a pair (same arguments, other nonce)

vars == <<op, pc, plaintext, ciphertext, password, nBits, sequence, nonce, x,
          xInt32, n, shift, key, counterBlock, blockCount, b, fed, result,
          orig, rt, prev>>

---------------------------------------------------------------------------
(* Bounds of the model *)

\* longest plaintext (three blocks: two full, one partial)
MaxLen == 33
\* the loop counter n of leadingZeros is not counted past this value
NSat == 33

---------------------------------------------------------------------------
(* Program constants *)

blockSize == 16
HeaderLen == 8
DefaultShift == 8

ValidBits == {128, 192, 256}

---------------------------------------------------------------------------
(* Bytes, words and bit sets *)

Byte == 0..255

Zeros(len) == [i \in 1..len |-> 0]

\* the element of a one-element set. {e(v) : v \in {a}} evaluates a once and
\* hands e its value: the loops below bind their running values this way
Val(S) == CHOOSE v \in S : TRUE

RECURSIVE XorBits(_, _, _)
XorBits(u, v, k) ==
    IF k = 0 THEN 0
    ELSE (((u % 2) + (v % 2)) % 2) + 2 * XorBits(u \div 2, v \div 2, k - 1)

\* u ^ v on bytes
Xor(u, v) == Val({XorBits(uv, vv, 8) : uv \in {u}, vv \in {v}})

\* (v >>> c*8) & 0xff
ByteOf(v, c) == (v \div (256 ^ c)) % 256

\* v >>> s for a non-negative 32-bit v: JavaScript uses the low 5 bits of s
URShift(v, s) == v \div (2 ^ (s % 32))

RECURSIVE SumTo(_, _)
SumTo(s, k) == IF k = 0 THEN 0 ELSE s[k] + SumTo(s, k - 1)

\* the sum of the elements of a sequence
SumSeq(s) == Val({SumTo(sv, Len(sv)) : sv \in {s}})

Range(s) == {s[i] : i \in 1..Len(s)}

\* ToInt32 of a non-negative integer given by its bits: the low 32 bits
ToInt32(bits) == bits \cap (0..31)

\* w << 1 on an int32 bit pattern
Shl1(w) == {i + 1 : i \in {j \in w : j < 31}}

---------------------------------------------------------------------------
(* Arguments *)

\* a sequence argument: omitted, or a non-negative integer given by its bits
Absent == [given |-> FALSE, bits |-> {}]
Supplied(bits) == [given |-> TRUE, bits |-> bits]

\* the nonce argument when the caller omits it
NoNonce == -1

\* byte i (1-based) of the test buffer of a given length and fill
Fill(len, f) == [i \in 1..len |-> (f + 11 * i) % 256]

Lengths == {0, 1, 15, 16, 17, MaxLen}
Plaintexts == {Fill(len, 0) : len \in Lengths} \cup {Fill(17, 200)}
\* a password longer than 16 bytes and shorter than 24: bytes 41..60
LongPassword == [i \in 1..20 |-> 40 + i]
Passwords == {<<112>>, <<1, 2, 3>>, LongPassword}
KeySizes == {128, 192, 256, 100}
\* omitted, 0, 1, 2^10, 2^31, 2^31 + 1, 2^32, 2^63
Sequences == {Absent, Supplied({}), Supplied({0}), Supplied({10}),
              Supplied({31}), Supplied({0, 31}), Supplied({32}), Supplied({63})}
Nonces == {NoNonce, 0, 1999, 10000}
\* what Date.getTime() and Math.random()*0xffff may give
Times == {1000001, 1000002}
Randoms == {0, 4660, 65534}
\* ciphertexts handed to decrypt directly (lengths below, at and above the header)
Ciphertexts == {Fill(len, 7) : len \in {0, 3, 7, 8, 9, 25}}

---------------------------------------------------------------------------
(* The block cipher (Aes.cipher, Aes.keyExpansion): a library the code calls. *)
(* It is kept abstract: a deterministic function of its 16-byte input and   *)
(* the key schedule.                                                       *)

\* the schedule: one byte per key byte, byte i mixed with its position
RECURSIVE KeyExpansionLoop(_, _, _)
KeyExpansionLoop(k, i, acc) ==
    IF i > Len(k) THEN acc
    ELSE Val({KeyExpansionLoop(k, iv + 1, Append(av, (k[iv] + 17 * iv) % 256)) :
                 iv \in {i}, av \in {acc}})

KeyExpansion(k) == Val({KeyExpansionLoop(kv, 1, <<>>) : kv \in {k}})

\* output byte i mixes input byte i, schedule byte i and the sum s of all of them
RECURSIVE CipherLoop(_, _, _, _, _)
CipherLoop(input, w, s, i, acc) ==
    IF i > blockSize THEN acc
    ELSE Val({CipherLoop(input, w, s, iv + 1,
                         Append(av, (s + 31 * iv + 7 * input[iv]
                                       + w[((iv - 1) % Len(w)) + 1]) % 256)) :
                 iv \in {i}, av \in {acc}})

Cipher(input, w) ==
    Val({CipherLoop(iv, wv, SumTo(iv, blockSize) + SumTo(wv, Len(wv)), 1, <<>>) :
            iv \in {input}, wv \in {w}})

---------------------------------------------------------------------------
(* Key derivation (lines 64-71, 136-144) *)

\* password[j] stored into a Uint8Array: an index past the end stores 0
PwByte(pw, j) == IF j + 1 <= Len(pw) THEN pw[j + 1] ELSE 0

\* lines 67-69: for (j=0,i=0; i<nBytes; j=j<pl?j+1:0, i++) pwBytes[i] = password[j]
\* (acc holds pwBytes[0..i-1])
RECURSIVE PwLoop(_, _, _, _, _, _)
PwLoop(pw, pl, nBytes, i, j, acc) ==
    IF i >= nBytes THEN acc
    ELSE Val({PwLoop(pw, pl, nBytes, iv + 1, IF jv < pl THEN jv + 1 ELSE 0,
                     Append(av, PwByte(pw, jv))) :
                 iv \in {i}, jv \in {j}, av \in {acc}})

\* lines 65-69: pwBytes
PwBytes(pw, nBytes) ==
    Val({PwLoop(pv, Len(pv) - 1, nBytes, 0, 0, <<>>) : pv \in {pw}})

\* AesCtrP.concat(key, key.slice(0, nBytes-16))
Concat(b1, b2) == b1 \o b2

\* a derivation that leaves the 16 cipher bytes as the key
ExpandKeyUnextended(k, nBytes) == k

\* line 71: key = concat(key, key.slice(0, nBytes-16))
ExpandKey(k, nBytes) == Val({Concat(kv, SubSeq(kv, 1, nBytes - 16)) : kv \in {k}})

\* lines 64-71: nBytes, pwBytes, key
DeriveKey(pw, bits) ==
    Val({ExpandKey(Cipher(pwBytes, KeyExpansion(pwBytes)), bits \div 8) :
            pwBytes \in {PwBytes(pw, bits \div 8)}})

---------------------------------------------------------------------------
(* Nonce header (lines 77-86) *)

NonceMs(t) == t % 1000
NonceSec(t) == t \div 1000

\* line 81: nonce = nonceMs = nonceSec = nonceRnd = 0
ResetNonceField(v) == 0

\* bytes 0..7 of the counter block, from the three fields
NonceHeader(ms, rnd, sec) ==
    [i \in 1..HeaderLen |->
        IF i <= 2 THEN ByteOf(ms, i - 1)
        ELSE IF i <= 4 THEN ByteOf(rnd, i - 3)
        ELSE ByteOf(sec, i - 5)]

\* lines 77-85: the header encrypt writes for nonce argument N
EncryptHeader(N, now, rnd) ==
    LET t == IF N = NoNonce THEN now ELSE N
    IN  NonceHeader(ResetNonceField(NonceMs(t)), ResetNonceField(rnd),
                    ResetNonceField(NonceSec(t)))

---------------------------------------------------------------------------
(* Counter packing and the block loop (lines 90-109, 155-174) *)

\* Math.ceil(len/blockSize)
BlockCount(len) == (len + blockSize - 1) \div blockSize

\* mutant of CiphertextLength: the buffer is sized in whole blocks
CiphertextLengthPadded(plen) == BlockCount(plen) * blockSize + HeaderLen

\* line 82: new Uint8Array(plaintext.length+8)
CiphertextLength(plen) == plen + HeaderLen

\* mutant of CounterLow: the low word takes b / 2^32 (the high half of the index)
CounterLowHighHalf(blk, c) == ByteOf((blk \div 65536) \div 65536, c)

\* line 95: counterBlock[15-c] = (b >>> c*8) & 0xff
CounterLow(blk, c) == ByteOf(blk, c)

\* line 96: counterBlock[15-c-4] = ((b>>>sequence) >>> c*8), a byte store
CounterHigh(blk, s, c) == ByteOf(URShift(blk, s), c)

\* the counter block for block blk: bytes 0..7 kept, 8..11 high, 12..15 low
EncodeCounter(cb, blk, s) ==
    [i \in 1..blockSize |->
        IF i >= 13 THEN CounterLow(blk, 16 - i)
        ELSE IF i >= 9 THEN CounterHigh(blk, s, 12 - i)
        ELSE cb[i]]

\* line 101: b<blockCount-1 ? blockSize : (len-1)%blockSize+1
BlockLength(blk, count, len) ==
    IF blk < count - 1 THEN blockSize ELSE ((len - 1) % blockSize) + 1

\* lines 105-107: for (i=0; i<blockLength; i++) out[outOff+i] = cipherCntr[i] ^ in[inOff+i]
RECURSIVE XorLoop(_, _, _, _, _, _, _)
XorLoop(out, outOff, in, inOff, cipherCntr, blockLength, i) ==
    IF i >= blockLength THEN out
    ELSE Val({XorLoop([ov EXCEPT ![outOff + iv + 1] =
                          Xor(cipherCntr[iv + 1], in[inOff + iv + 1])],
                      outOff, in, inOff, cipherCntr, blockLength, iv + 1) :
                 iv \in {i}, ov \in {out}})

XorBlock(out, outOff, in, inOff, cipherCntr, blockLength) ==
    XorLoop(out, outOff, in, inOff, cipherCntr, blockLength, 0)

---------------------------------------------------------------------------
(* AesCtrP.leadingZeros (lines 30-40) *)

\* x < 0: the raw argument is non-negative; an int32 is negative with bit 31
Negative == xInt32 /\ 31 \in x

\* line 33: if (x == 0) return 64
LeadingZerosOfZero == 64

\* mutant of LeadingZerosResult: the 32 zeros of the high word are not counted
LeadingZerosResultLowWord(cnt) == cnt

\* line 39: return n+32
LeadingZerosResult(cnt) == cnt + 32

\* 64 - AesCtrP.leadingZeros(sequence)
ShiftOf(lz) == 64 - lz

\* `sequence` has not been reassigned yet (leadingZeros has not returned)
Unset == -1

---------------------------------------------------------------------------
(* Results *)

NoResult == [kind |-> "none", bytes |-> <<>>]
EmptyString == [kind |-> "string", bytes |-> <<>>]
Buffer(bs) == [kind |-> "bytes", bytes |-> bs]

NoPrev == [valid |-> FALSE, nonce |-> NoNonce, header |-> <<>>, fed |-> {}]

---------------------------------------------------------------------------
(* Init *)

Init ==
    /\ op = "none"
    /\ pc = "idle"
    /\ plaintext = <<>>
    /\ ciphertext = <<>>
    /\ password = <<>>
    /\ nBits = 0
    /\ sequence = Absent
    /\ nonce = NoNonce
    /\ x = {}
    /\ xInt32 = FALSE
    /\ n = 0
    /\ shift = Unset
    /\ key = <<>>
    /\ counterBlock = <<>>
    /\ blockCount = 0
    /\ b = 0
    /\ fed = <<>>
    /\ result = NoResult
    /\ orig = <<>>
    /\ rt = FALSE
    /\ prev = NoPrev

---------------------------------------------------------------------------
(* The start of a call *)

\* lines 57 / 130: sequence = (sequence==null) ? 8 : (64 - leadingZeros(sequence)),
\* up to the first test of the loop of leadingZeros
EnterShift(seq) ==
    /\ n' = 0
    /\ xInt32' = FALSE
    /\ IF ~seq.given
       THEN /\ shift' = DefaultShift
            /\ x' = {}
            /\ pc' = "setup"
       ELSE IF seq.bits = {}
       THEN /\ shift' = ShiftOf(LeadingZerosOfZero)
            /\ x' = {}
            /\ pc' = "setup"
       ELSE /\ shift' = Unset
            /\ x' = seq.bits
            /\ pc' = "lz"

\* the locals of a fresh call
FreshLocals ==
    /\ key' = <<>>
    /\ counterBlock' = <<>>
    /\ blockCount' = 0
    /\ b' = 0
    /\ fed' = <<>>
    /\ result' = NoResult

\* AesCtrP.encrypt(P, pw, bits, seq, N) is entered: line 57 runs first
EncryptEntry(P, pw, bits, seq, N) ==
    /\ op' = "encrypt"
    /\ plaintext' = P
    /\ ciphertext' = <<>>
    /\ password' = pw
    /\ nBits' = bits
    /\ sequence' = seq
    /\ nonce' = N
    /\ FreshLocals
    /\ EnterShift(seq)

\* AesCtrP.decrypt(C, pw, bits, seq) is entered: line 129 runs first
DecryptEntry(C, pw, bits, seq) ==
    /\ op' = "decrypt"
    /\ ciphertext' = C
    /\ plaintext' = <<>>
    /\ password' = pw
    /\ nBits' = bits
    /\ sequence' = seq
    /\ key' = <<>>
    /\ counterBlock' = <<>>
    /\ blockCount' = 0
    /\ b' = 0
    /\ fed' = <<>>
    /\ IF bits \notin ValidBits
       THEN /\ result' = EmptyString
            /\ pc' = "done"
            /\ shift' = Unset
            /\ x' = {}
            /\ xInt32' = FALSE
            /\ n' = 0
       ELSE /\ result' = NoResult
            /\ EnterShift(seq)

EncryptCall ==
    /\ pc = "idle"
    /\ \E P \in Plaintexts, pw \in Passwords, bits \in KeySizes,
          seq \in Sequences, N \in Nonces :
            EncryptEntry(P, pw, bits, seq, N)
    /\ orig' = <<>>
    /\ rt' = FALSE
    /\ prev' = NoPrev

DecryptCall ==
    /\ pc = "idle"
    /\ \E C \in Ciphertexts, pw \in Passwords, bits \in KeySizes,
          seq \in Sequences :
            DecryptEntry(C, pw, bits, seq)
    /\ nonce' = NoNonce
    /\ orig' = <<>>
    /\ rt' = FALSE
    /\ prev' = NoPrev

---------------------------------------------------------------------------
(* AesCtrP.leadingZeros: one iteration, and the return *)

\* lines 35-37: x is not negative: n++, x = x << 1
LzStep ==
    /\ pc = "lz"
    /\ ~Negative
    /\ n' = IF n < NSat THEN n + 1 ELSE n
    /\ x' = Shl1(ToInt32(x))
    /\ xInt32' = TRUE
    /\ UNCHANGED <<op, pc, plaintext, ciphertext, password, nBits, sequence,
                   nonce, shift, key, counterBlock, blockCount, b, fed,
                   result, orig, rt, prev>>

\* lines 35, 39: x < 0: break, return n+32; the caller stores 64 - that
LzReturn ==
    /\ pc = "lz"
    /\ Negative
    /\ shift' = ShiftOf(LeadingZerosResult(n))
    /\ pc' = "setup"
    /\ UNCHANGED <<op, plaintext, ciphertext, password, nBits, sequence,
                   nonce, x, xInt32, n, key, counterBlock, blockCount, b, fed,
                   result, orig, rt, prev>>

---------------------------------------------------------------------------
(* AesCtrP.encrypt, lines 58-112 *)

\* lines 58-90: key-size check, key derivation, nonce header, allocation
EncryptSetup ==
    /\ pc = "setup"
    /\ op = "encrypt"
    /\ IF nBits \notin ValidBits
       THEN /\ result' = EmptyString
            /\ pc' = "done"
            /\ UNCHANGED <<key, counterBlock, ciphertext, blockCount, b>>
       ELSE \E now \in Times, rnd \in Randoms :
            \E header \in {EncryptHeader(nonce, now, rnd)} :
                /\ key' = DeriveKey(password, nBits)
                /\ counterBlock' = header \o Zeros(blockSize - HeaderLen)
                /\ ciphertext' =
                      [i \in 1..CiphertextLength(Len(plaintext)) |->
                          IF i <= HeaderLen THEN header[i] ELSE 0]
                /\ blockCount' = BlockCount(Len(plaintext))
                /\ b' = 0
                /\ pc' = "loop"
                /\ UNCHANGED result
    /\ UNCHANGED <<op, plaintext, password, nBits, sequence, nonce, x, xInt32,
                   n, shift, fed, orig, rt, prev>>

\* lines 92-109: one block
EncryptBlock ==
    /\ pc = "loop"
    /\ op = "encrypt"
    /\ b < blockCount
    /\ \E cb \in {EncodeCounter(counterBlock, b, shift)} :
       \E cipherCntr \in {Cipher(cb, KeyExpansion(key))} :
       LET blockLength == BlockLength(b, blockCount, Len(plaintext))
           index       == b * blockSize
           bindex      == HeaderLen + index
       IN  /\ counterBlock' = cb
           /\ fed' = Append(fed, cb)
           /\ ciphertext' = XorBlock(ciphertext, bindex, plaintext, index,
                                     cipherCntr, blockLength)
    /\ b' = b + 1
    /\ UNCHANGED <<op, pc, plaintext, password, nBits, sequence, nonce, x,
                   xInt32, n, shift, key, blockCount, result, orig, rt, prev>>

\* line 111: return ciphertext
EncryptReturn ==
    /\ pc = "loop"
    /\ op = "encrypt"
    /\ b >= blockCount
    /\ result' = Buffer(ciphertext)
    /\ pc' = "done"
    /\ UNCHANGED <<op, plaintext, ciphertext, password, nBits, sequence, nonce,
                   x, xInt32, n, shift, key, counterBlock, blockCount, b, fed,
                   orig, rt, prev>>

---------------------------------------------------------------------------
(* AesCtrP.decrypt, lines 132-178 *)

\* lines 132-155: key derivation, allocation of the plaintext, the header.
\* new Uint8Array(ciphertext.length-8) throws a RangeError for a negative length.
DecryptSetup ==
    /\ pc = "setup"
    /\ op = "decrypt"
    /\ key' = DeriveKey(password, nBits)
    /\ IF Len(ciphertext) - HeaderLen < 0
       THEN /\ pc' = "error"
            /\ UNCHANGED <<plaintext, counterBlock, blockCount, b>>
       ELSE /\ plaintext' = Zeros(Len(ciphertext) - HeaderLen)
            /\ counterBlock' =
                  [i \in 1..blockSize |->
                      IF i <= HeaderLen THEN ciphertext[i] ELSE 0]
            /\ blockCount' = BlockCount(Len(ciphertext) - HeaderLen)
            /\ b' = 0
            /\ pc' = "loop"
    /\ UNCHANGED <<op, ciphertext, password, nBits, sequence, nonce, x, xInt32,
                   n, shift, fed, result, orig, rt, prev>>

\* lines 159-174: one block
DecryptBlock ==
    /\ pc = "loop"
    /\ op = "decrypt"
    /\ b < blockCount
    /\ \E cb \in {EncodeCounter(counterBlock, b, shift)} :
       \E cipherCntr \in {Cipher(cb, KeyExpansion(key))} :
       LET index       == b * blockSize
           bindex      == HeaderLen + index
           blockLength == BlockLength(b, blockCount, Len(plaintext))
       IN  /\ counterBlock' = cb
           /\ fed' = Append(fed, cb)
           /\ plaintext' = XorBlock(plaintext, index, ciphertext, bindex,
                                    cipherCntr, blockLength)
    /\ b' = b + 1
    /\ UNCHANGED <<op, pc, ciphertext, password, nBits, sequence, nonce, x,
                   xInt32, n, shift, key, blockCount, result, orig, rt, prev>>

\* line 177: return plaintext
DecryptReturn ==
    /\ pc = "loop"
    /\ op = "decrypt"
    /\ b >= blockCount
    /\ result' = Buffer(plaintext)
    /\ pc' = "done"
    /\ UNCHANGED <<op, plaintext, ciphertext, password, nBits, sequence, nonce,
                   x, xInt32, n, shift, key, counterBlock, blockCount, b, fed,
                   orig, rt, prev>>

---------------------------------------------------------------------------
(* What the caller does with a returned ciphertext *)

\* README lines 8-9: decrypt(buf, password, bits, sequence) on what encrypt returned
DecryptResult ==
    /\ pc = "done"
    /\ op = "encrypt"
    /\ result.kind = "bytes"
    /\ DecryptEntry(result.bytes, password, nBits, sequence)
    /\ orig' = plaintext
    /\ rt' = TRUE
    /\ UNCHANGED <<nonce, prev>>

\* a second packet: the same plaintext, password, key size and sequence, another nonce
EncryptAgain ==
    /\ pc = "done"
    /\ op = "encrypt"
    /\ result.kind = "bytes"
    /\ ~prev.valid
    /\ \E N \in Nonces \ {nonce} :
          EncryptEntry(plaintext, password, nBits, sequence, N)
    /\ prev' = [valid  |-> TRUE,
                nonce  |-> nonce,
                header |-> SubSeq(result.bytes, 1, HeaderLen),
                fed    |-> Range(fed)]
    /\ UNCHANGED <<orig, rt>>

---------------------------------------------------------------------------
(* Specifications *)

Next ==
    \/ EncryptCall
    \/ DecryptCall
    \/ LzStep
    \/ LzReturn
    \/ EncryptSetup
    \/ EncryptBlock
    \/ EncryptReturn
    \/ DecryptSetup
    \/ DecryptBlock
    \/ DecryptReturn
    \/ DecryptResult
    \/ EncryptAgain

Spec == Init /\ [][Next]_vars

\* the steps of a running call, and the decrypt of a returned ciphertext
Run ==
    \/ LzStep
    \/ LzReturn
    \/ EncryptSetup
    \/ EncryptBlock
    \/ EncryptReturn
    \/ DecryptSetup
    \/ DecryptBlock
    \/ DecryptReturn
    \/ DecryptResult

\* JavaScript runs a call to completion: a step that can be taken is taken
FairSpec == Spec /\ WF_vars(Run)

---------------------------------------------------------------------------
(* Helpers of the properties *)

\* the number of bits of a non-negative integer given by its bits: bitlength(0) = 0
BitLength(bits) ==
    IF bits = {} THEN 0
    ELSE (CHOOSE m \in bits : \A k \in bits : k <= m) + 1

\* v >> s on a non-negative integer given by its bits (a 64-bit shift)
ShrBits(bits, s) == {i - s : i \in {j \in bits : j >= s}}

\* byte c of a non-negative integer given by its bits
ByteOfBits(bits, c) ==
    LET bit(j) == IF (8 * c + j) \in bits THEN 2 ^ j ELSE 0
    IN  bit(0) + bit(1) + bit(2) + bit(3) + bit(4) + bit(5) + bit(6) + bit(7)

\* the first 8 bytes of a buffer
Header(bytes) == SubSeq(bytes, 1, HeaderLen)

\* an encrypt call with a valid key size has returned
EncryptReturned ==
    op = "encrypt" /\ pc = "done" /\ nBits \in ValidBits

TypeOK ==
    /\ op \in {"none", "encrypt", "decrypt"}
    /\ pc \in {"idle", "lz", "setup", "loop", "done", "error"}
    /\ nBits \in KeySizes \cup {0}
    /\ x \subseteq 0..63
    /\ n \in 0..NSat
    /\ shift \in {Unset} \cup 0..64
    /\ b \in 0..blockCount
    /\ \A i \in 1..Len(fed) : Len(fed[i]) = blockSize
    /\ \A i \in 1..Len(ciphertext) : ciphertext[i] \in Byte
    /\ \A i \in 1..Len(plaintext) : plaintext[i] \in Byte

\* a round trip that returns, returns the plaintext that was encrypted
RoundTripWhenReturned ==
    (rt /\ op = "decrypt" /\ pc = "done") => result = Buffer(orig)

---------------------------------------------------------------------------
(* Properties *)

\* C1: round trip. Every encrypt call with a valid key size is followed by a
\* decrypt of its result, with the same password, key size and sequence, that
\* returns a buffer equal to the plaintext.
RoundTrip ==
    (op = "encrypt" /\ nBits \in ValidBits)
        ~> (rt /\ op = "decrypt" /\ pc = "done" /\ result = Buffer(orig))

\* C2: header integrity. When encrypt was given nonce N, bytes 0-1 of the
\* returned buffer are N mod 1000 (little-endian) and bytes 4-7 are
\* floor(N/1000) (little-endian).
HeaderIntegrity ==
    (EncryptReturned /\ nonce # NoNonce) =>
        /\ result.kind = "bytes"
        /\ \A i \in 0..1 : result.bytes[1 + i] = ((nonce % 1000) \div (256 ^ i)) % 256
        /\ \A i \in 0..3 : result.bytes[5 + i] = ((nonce \div 1000) \div (256 ^ i)) % 256

\* C3: across packets. Two encrypt calls with the same plaintext, password, key
\* size and sequence and different nonces return different headers, and no
\* counter block fed to the cipher in one call is fed to it in the other.
DifferingNonce ==
    (EncryptReturned /\ prev.valid /\ nonce # NoNonce /\ prev.nonce # NoNonce
        /\ nonce # prev.nonce) =>
        /\ Header(result.bytes) # prev.header
        /\ Range(fed) \cap prev.fed = {}

\* C4: invalid key size. A call of encrypt or decrypt with a key size outside
\* {128,192,256} returns the empty result, and has processed no block.
InvalidKeySize ==
    (pc # "idle" /\ nBits \notin ValidBits)
        ~> (pc = "done" /\ result = EmptyString /\ fed = <<>>)

\* C5: termination. Every call of encrypt or decrypt comes to its end.
Termination ==
    (pc # "idle") ~> (pc \in {"done", "error"})

\* C6: any input length is accepted. With a valid key size no call ends in an
\* error, and a call that has ended returned a byte buffer.
AnyLengthAccepted ==
    /\ pc # "error"
    /\ (pc = "done" /\ nBits \in ValidBits) => result.kind = "bytes"

\* C7: length invariant. The buffer encrypt returns for a valid key size has
\* length len(P) + 8.
LengthInvariant ==
    EncryptReturned =>
        /\ result.kind = "bytes"
        /\ Len(result.bytes) = Len(plaintext) + 8

\* C7 witness: encrypt returned for a plaintext with a partial last block
LengthInvariantWitness ==
    EncryptReturned /\ Len(plaintext) = 17 /\ Len(result.bytes) = 25

\* C8: counter packing. The counter block fed to the cipher for block index k
\* has bytes 15..12 = bytes 0..3 of k and bytes 11..8 = bytes 0..3 of
\* (sequence >> shift), sequence being the caller's sequence number.
CounterPacking ==
    \A k \in 1..Len(fed) :
        /\ \A c \in 0..3 : fed[k][16 - c] = ((k - 1) \div (256 ^ c)) % 256
        /\ \A c \in 0..3 :
              fed[k][12 - c] = ByteOfBits(ShrBits(sequence.bits, shift), c)

NoCounterReuse ==
    (op = "encrypt") =>
        /\ \A i, j \in 1..Len(fed) : i # j => fed[i] # fed[j]
        /\ \A i \in 1..Len(fed) : Header(fed[i]) = Header(ciphertext)

\* C10 witness: encrypt returned after feeding three blocks
NoCounterReuseWitness ==
    EncryptReturned /\ Len(fed) = 3 /\ blockCount = 3

\* C11: key derivation. Once encrypt or decrypt has built its key from a
\* password of length >= 1 and a key size of 128, 192 or 256, the key is the
\* same function of (password, key size) in both: with
\* pw[i] = password[i mod len(password)] for i in 0 .. bits/8 - 1, its first 16
\* bytes are cipher(pw, keyExpansion(pw)), the bytes after them repeat its own
\* leading bits/8 - 16 bytes, and its length is bits/8.
KeyDerivation ==
    (op \in {"encrypt", "decrypt"} /\ key # <<>>) =>
        LET nBytes == nBits \div 8
            pw == [i \in 1..nBytes |-> password[((i - 1) % Len(password)) + 1]]
        IN  /\ nBits \in ValidBits
            /\ Len(password) >= 1
            /\ Len(key) = nBytes
            /\ SubSeq(key, 1, blockSize) = Cipher(pw, KeyExpansion(pw))
            /\ \A i \in (blockSize + 1)..nBytes : key[i] = key[i - blockSize]

\* C11 witness: decrypt, run on encrypt's output, built a 24-byte key from the
\* 20-byte password (wrapped once, extended by 8 bytes)
KeyDerivationWitness ==
    /\ rt
    /\ op = "decrypt"
    /\ pc = "done"
    /\ nBits = 192
    /\ password = LongPassword
    /\ Len(key) = 24
    /\ key[17] = key[1]

=============================================================================
